---- MODULE Spec2Model ----
(***************************************************************************)
(* Model of train_app.py: the pairwise similarity feedback collection app. *)
(*                                                                         *)
(* The Streamlit script main() is re-run from the top after every user     *)
(* interaction with a widget.  The state that survives between runs is     *)
(* st.session_state (five keys) and the values held by the two file        *)
(* uploaders.  Each action below is one user interaction together with     *)
(* the script run(s) it triggers, st.rerun() included.                     *)
(*                                                                         *)
(* Scores are counted in tenths (the slider step): 7 stands for 0.7.       *)
(* Sequences are 1-based, current_pair_index stays 0-based as in Python.   *)
(* audio_files is kept as the list of its keys in insertion order; the     *)
(* bytes stored under them are not modelled.  The files in the WAV         *)
(* uploader have distinct names.  A run triggered by the rater receives    *)
(* its uploaded files as fresh objects, so read() starts at the first      *)
(* byte.                                                                   *)
(***************************************************************************)
EXTENDS Integers, Sequences, FiniteSets, TLC

(***************************************************************************)
(* Bounds of the model.                                                    *)
(***************************************************************************)
\* Submit Rating is not explored once the judgment list holds this many.
MaxFeedback == 3
\* Longest prior-judgment list drawn for the pure check of generate_pairs.
MaxPrior == 2

\* Names of the WAV files a rater may upload in a session.
Names == {"a.wav", "b.wav", "c.wav"}
\* Names drawn for the pure check of generate_pairs.
PairNames == {"a.wav", "b.wav", "c.wav", "d.wav"}

(***************************************************************************)
(* Generic helpers.                                                        *)
(***************************************************************************)
Range(s) == {s[i] : i \in 1..Len(s)}

IsInjective(s) == \A i, j \in 1..Len(s) : s[i] = s[j] => i = j

\* All lists of distinct names from S with at least lo and at most hi entries.
DistinctSeqs(S, lo, hi) ==
    UNION {{s \in [1..n -> S] : IsInjective(s)} : n \in lo..hi}

\* All lists over S with at most hi entries.
SeqsUpTo(S, hi) == UNION {[1..n -> S] : n \in 0..hi}

\* s without its i-th entry.
RemoveAt(s, i) == [k \in 1..(Len(s) - 1) |-> IF k < i THEN s[k] ELSE s[k + 1]]

\* Number of unordered pairs over n items.
Choose2(n) == (n * (n - 1)) \div 2

\* A pair or a judgment, as the unordered set of the two names it holds.
PairSet(p) == {p[1], p[2]}
JudgedSet(f) == {f.song_a, f.song_b}

\* Some judgment of the list names the same pair as an earlier one.
HasDuplicatePair(feedback) ==
    \E i, j \in 1..Len(feedback) :
        i < j /\ JudgedSet(feedback[i]) = JudgedSet(feedback[j])

\* Every unordered pair of distinct members of S.
UnorderedPairs(S) == {T \in SUBSET S : Cardinality(T) = 2}

(***************************************************************************)
(* JSON documents.  A file is kept as what its bytes say: whether they     *)
(* decode and parse, what the root is and, for an array root, the members  *)
(* <<key, type, text>> of each element in the order written.  Parsed       *)
(* elements are dicts: functions from keys to values.                      *)
(***************************************************************************)
Keys == <<"song_a", "song_b", "similarity_score">>

\* The text json.dumps writes for a score (a float that is a whole number of tenths).
NumberTexts ==
    <<"-0.1", "0.0", "0.1", "0.2", "0.3", "0.4", "0.5", "0.6", "0.7", "0.8",
      "0.9", "1.0", "1.1">>

Numbers == (-1)..11

NumberText(x) == NumberTexts[x + 2]

ParseNumber(text) == CHOOSE x \in Numbers : NumberText(x) = text

\* The uploader holds no file (feedback_file is None).
NoFile == [syntax |-> "none", items |-> <<>>]

\* An export that names the fields item_a and item_b, as the data model's
\* judgment record does, instead of song_a and song_b.
json_dumps_item_keys(feedback) ==
    [syntax |-> "array",
     items |-> [i \in 1..Len(feedback) |->
                  <<<<"item_a", "string", feedback[i].song_a>>,
                    <<"item_b", "string", feedback[i].song_b>>,
                    <<"similarity_score", "number",
                      NumberText(feedback[i].similarity_score)>>>>]]

\* json.dumps(st.session_state.feedback, indent=4)
json_dumps(feedback) ==
    LET Member(d, k) ==
            IF k = "similarity_score"
            THEN <<k, "number", NumberText(d[k])>>
            ELSE <<k, "string", d[k]>>
        Present(d) == SelectSeq(Keys, LAMBDA k : k \in DOMAIN d)
        Element(d) == [i \in 1..Len(Present(d)) |-> Member(d, Present(d)[i])]
    IN  [syntax |-> "array",
         items |-> [i \in 1..Len(feedback) |-> Element(feedback[i])]]

\* json.loads(content) of a document whose root is an array of objects:
\* each object becomes a dict, a repeated key keeping its last value.
json_loads(file) ==
    LET Value(m) == IF m[2] = "number" THEN ParseNumber(m[3]) ELSE m[3]
        Last(e, k) == CHOOSE i \in 1..Len(e) :
                         /\ e[i][1] = k
                         /\ \A j \in (i + 1)..Len(e) : e[j][1] # k
        Dict(e) == [k \in {e[i][1] : i \in 1..Len(e)} |-> Value(e[Last(e, k)])]
    IN  [i \in 1..Len(file.items) |-> Dict(file.items[i])]

(***************************************************************************)
(* The functions of train_app.py.                                          *)
(***************************************************************************)
\* The session state initialize_session_state installs.
initialize_session_state ==
    [initialized |-> TRUE,
     feedback |-> <<>>,
     remaining_pairs |-> <<>>,
     current_pair_index |-> 0,
     audio_files |-> <<>>]

\* The list comprehension of generate_pairs: (file_names[i], file_names[j])
\* for i in range(n) for j in range(i + 1, n), in that order.
RECURSIVE all_pairs_from(_, _)
all_pairs_from(file_names, i) ==
    IF i >= Len(file_names)
    THEN <<>>
    ELSE [k \in 1..(Len(file_names) - i) |-> <<file_names[i], file_names[i + k]>>]
         \o all_pairs_from(file_names, i + 1)

\* The comprehension with j starting at i instead of i + 1: every item is also
\* paired with itself.
all_pairs_with_self(file_names) ==
    LET n == Len(file_names)
        at(k) == <<((k - 1) \div n) + 1, ((k - 1) % n) + 1>>
        grid == [k \in 1..(n * n) |-> at(k)]
        kept == SelectSeq(grid, LAMBDA ij : ij[1] <= ij[2])
    IN  [k \in 1..Len(kept) |-> <<file_names[kept[k][1]], file_names[kept[k][2]]>>]

all_pairs(file_names) == all_pairs_from(file_names, 1)

\* rated_pairs holding only the orientation opposite to the one recorded.
rated_pairs_reversed(existing_feedback) ==
    {<<f.song_b, f.song_a>> : f \in Range(existing_feedback)}

\* rated_pairs without the update of line 23: only the orientation recorded.
rated_pairs_one_way(existing_feedback) ==
    {<<f.song_a, f.song_b>> : f \in Range(existing_feedback)}

\* The set rated_pairs: both orientations of every prior judgment.
rated_pairs(existing_feedback) ==
    {<<f.song_a, f.song_b>> : f \in Range(existing_feedback)}
        \cup {<<f.song_b, f.song_a>> : f \in Range(existing_feedback)}

\* generate_pairs pairing a lone item with itself.
generate_pairs_lone_item(file_names, existing_feedback) ==
    IF Len(file_names) = 1
    THEN <<<<file_names[1], file_names[1]>>>>
    ELSE all_pairs(file_names)

generate_pairs(file_names, existing_feedback) ==
    IF existing_feedback # <<>>
    THEN SelectSeq(all_pairs(file_names),
                   LAMBDA pair : <<pair[1], pair[2]>> \notin rated_pairs(existing_feedback))
    ELSE all_pairs(file_names)

\* The keys of the dict save_uploaded_files builds, in insertion order: a name
\* uploaded twice keeps its first place.  The bytes stored are not modelled.
save_uploaded_files(uploaded) ==
    LET first == SelectSeq([i \in 1..Len(uploaded) |-> i],
                           LAMBDA i : \A j \in 1..(i - 1) : uploaded[j] # uploaded[i])
    IN  [k \in 1..Len(first) |-> uploaded[first[k]]]

\* handle_submission stepping over the pair after the current one.
handle_submission_skip(ss, similarity_score) ==
    IF ss.remaining_pairs # <<>>
    THEN IF ss.current_pair_index < Len(ss.remaining_pairs)
         THEN LET current_pair == ss.remaining_pairs[ss.current_pair_index + 1]
                  feedback_entry == [song_a |-> current_pair[1],
                                     song_b |-> current_pair[2],
                                     similarity_score |-> similarity_score]
              IN  [state |-> [ss EXCEPT !.feedback = Append(@, feedback_entry),
                                        !.current_pair_index = @ + 2],
                   returns |-> "True"]
         ELSE [state |-> ss, returns |-> "IndexError"]
    ELSE [state |-> ss, returns |-> "False"]

\* handle_submission taking the current pair out of the queue.
handle_submission_pop(ss, similarity_score) ==
    IF ss.remaining_pairs # <<>>
    THEN IF ss.current_pair_index < Len(ss.remaining_pairs)
         THEN LET current_pair == ss.remaining_pairs[ss.current_pair_index + 1]
                  feedback_entry == [song_a |-> current_pair[1],
                                     song_b |-> current_pair[2],
                                     similarity_score |-> similarity_score]
              IN  [state |-> [ss EXCEPT
                                 !.feedback = Append(@, feedback_entry),
                                 !.remaining_pairs =
                                     RemoveAt(@, ss.current_pair_index + 1)],
                   returns |-> "True"]
         ELSE [state |-> ss, returns |-> "IndexError"]
    ELSE [state |-> ss, returns |-> "False"]

\* handle_submission recording the first song of the pair as both songs.
handle_submission_same_song(ss, similarity_score) ==
    IF ss.remaining_pairs # <<>>
    THEN IF ss.current_pair_index < Len(ss.remaining_pairs)
         THEN LET current_pair == ss.remaining_pairs[ss.current_pair_index + 1]
                  feedback_entry == [song_a |-> current_pair[1],
                                     song_b |-> current_pair[1],
                                     similarity_score |-> similarity_score]
              IN  [state |-> [ss EXCEPT !.feedback = Append(@, feedback_entry),
                                        !.current_pair_index = @ + 1],
                   returns |-> "True"]
         ELSE [state |-> ss, returns |-> "IndexError"]
    ELSE [state |-> ss, returns |-> "False"]

\* handle_submission with the index forgotten: always records the first pair.
handle_submission_first_pair(ss, similarity_score) ==
    IF ss.remaining_pairs # <<>>
    THEN IF ss.current_pair_index < Len(ss.remaining_pairs)
         THEN LET current_pair == ss.remaining_pairs[1]
                  feedback_entry == [song_a |-> current_pair[1],
                                     song_b |-> current_pair[2],
                                     similarity_score |-> similarity_score]
              IN  [state |-> [ss EXCEPT !.feedback = Append(@, feedback_entry),
                                        !.current_pair_index = @ + 1],
                   returns |-> "True"]
         ELSE [state |-> ss, returns |-> "IndexError"]
    ELSE [state |-> ss, returns |-> "False"]

\* The outcome of handle_submission on session state ss: the state it leaves
\* and what it returns ("IndexError" when the subscript raises).
handle_submission(ss, similarity_score) ==
    IF ss.remaining_pairs # <<>>
    THEN IF ss.current_pair_index < Len(ss.remaining_pairs)
         THEN LET current_pair == ss.remaining_pairs[ss.current_pair_index + 1]
                  feedback_entry == [song_a |-> current_pair[1],
                                     song_b |-> current_pair[2],
                                     similarity_score |-> similarity_score]
              IN  [state |-> [ss EXCEPT !.feedback = Append(@, feedback_entry),
                                        !.current_pair_index = @ + 1],
                   returns |-> "True"]
         ELSE [state |-> ss, returns |-> "IndexError"]
    ELSE [state |-> ss, returns |-> "False"]

\* load_previous_feedback that stops at the first element with a missing field
\* and returns the elements before it.
load_previous_feedback_valid_prefix(feedback_file) ==
    IF feedback_file.syntax # "array"
    THEN [data |-> <<>>, error |-> "Invalid JSON file"]
    ELSE LET feedback_data == json_loads(feedback_file)
             bad == {i \in 1..Len(feedback_data) :
                        \E k \in Range(Keys) : k \notin DOMAIN feedback_data[i]}
         IN  IF bad # {}
             THEN [data |-> SubSeq(feedback_data, 1,
                                   (CHOOSE i \in bad : \A j \in bad : i <= j) - 1),
                   error |-> "Invalid feedback file format: missing required fields"]
             ELSE [data |-> feedback_data, error |-> ""]

\* load_previous_feedback: the list returned and the st.error message shown.
load_previous_feedback(feedback_file) ==
    CASE feedback_file.syntax = "binary" ->
            [data |-> <<>>, error |-> "Error loading feedback file"]
      [] feedback_file.syntax = "garbage" ->
            [data |-> <<>>, error |-> "Invalid JSON file"]
      [] feedback_file.syntax = "object" ->
            [data |-> <<>>,
             error |-> "Invalid feedback file format: expected a list of ratings"]
      [] OTHER ->
            LET feedback_data == json_loads(feedback_file)
            IN  IF \E i \in 1..Len(feedback_data) :
                      \E k \in Range(Keys) : k \notin DOMAIN feedback_data[i]
                THEN [data |-> <<>>,
                      error |-> "Invalid feedback file format: missing required fields"]
                ELSE [data |-> feedback_data, error |-> ""]

(***************************************************************************)
(* State.                                                                  *)
(***************************************************************************)
VARIABLES
    session_state,    \* st.session_state: the five keys of initialize_session_state
    uploaded_files,   \* names held by the WAV uploader, in upload order
    feedback_file,    \* the file held by the JSON uploader, or NoFile
    confirm_shown,    \* the last run rendered the "Confirm Reset" button
    disk,             \* the last download: the file; history: the item set and the
                      \* pairs judged when it was made
    last,             \* history: what the run of the last interaction did
    hist              \* history: counts since the last activation of the session

vars == <<session_state, uploaded_files, feedback_file, confirm_shown, disk, last, hist>>

\* Values of the "Rate the similarity" slider: min_value, max_value, step, default.
min_value == 0
max_value == 10
step == 1
SliderValues == {x \in min_value..max_value : (x - min_value) % step = 0}

\* The orders random.shuffle may leave a list in.
Shuffles(pairs) ==
    LET n == Len(pairs)
    IN  {[i \in 1..n |-> pairs[p[i]]] : p \in {q \in [1..n -> 1..n] : IsInjective(q)}}

\* What the last run put on the page.
ItemsShown == uploaded_files # <<>>
EnoughItems == ItemsShown /\ Len(session_state.audio_files) >= 2
PairOffered ==
    /\ EnoughItems
    /\ session_state.current_pair_index < Len(session_state.remaining_pairs)
AllRatedShown ==
    /\ EnoughItems
    /\ ~(session_state.current_pair_index < Len(session_state.remaining_pairs))
DownloadOffered == EnoughItems /\ session_state.feedback # <<>>
ResetOffered == EnoughItems

\* The progress line "Rated {rated_pairs} out of {total_pairs} pairs".
shown_rated_pairs == Len(session_state.feedback)
shown_total_pairs == Len(session_state.remaining_pairs) + Len(session_state.feedback)

\* The session tracker's state as the page tells it.
TrackerState ==
    IF session_state.audio_files = <<>> THEN "Empty"
    ELSE IF session_state.current_pair_index < Len(session_state.remaining_pairs)
         THEN "Active"
         ELSE "Complete"

\* last: whether the run activated an item set, the st.error message shown, the
\* prior judgments handed to generate_pairs, for a call of handle_submission
\* the score passed (as a set) and what it returned, and the keys of the
\* buttons that returned True.
NoHistory ==
    [activated |-> FALSE, error |-> "", previous_feedback |-> <<>>,
     score |-> {}, returns |-> "none", click |-> {}]

\* Nothing has been downloaded.
NoDownload == [file |-> NoFile, items |-> {}, judged |-> {}]

\* hist: whether the session was ever activated; the length of the judgment list
\* when the last activation ended; the submits recorded since; whether the
\* judgment list was last loaded from a file that judges some pair twice.
NoCounts == [activated |-> FALSE, base |-> 0, submits |-> 0, dup_loaded |-> FALSE]

Init ==
    /\ session_state = initialize_session_state
    /\ uploaded_files = <<>>
    /\ feedback_file = NoFile
    /\ confirm_shown = FALSE
    /\ disk = NoDownload
    /\ last = NoHistory
    /\ hist = NoCounts

(***************************************************************************)
(* One run of main() with the uploaders holding up and ff; click holds     *)
(* the keys of the buttons that return True in this run (the one the       *)
(* rater pressed), similarity_score the slider's value.  When the run ends *)
(* in st.rerun() after an activation or a submit, the second run finds the *)
(* item set unchanged and no button pressed, and only renders.             *)
(***************************************************************************)
main(up, ff, click, similarity_score) ==
    IF up # <<>> /\ Range(up) # Range(session_state.audio_files)
    THEN \* lines 101-118: the item set changed
         LET audio_files == save_uploaded_files(up)
             loaded == IF ff # NoFile
                       THEN load_previous_feedback(ff)
                       ELSE [data |-> <<>>, error |-> ""]
             previous_feedback == loaded.data
             feedback == IF previous_feedback # <<>>
                         THEN previous_feedback
                         ELSE session_state.feedback
             pairs == generate_pairs(audio_files, previous_feedback)
         IN  \E shuffled \in Shuffles(pairs) :
                /\ session_state' = [session_state EXCEPT
                                        !.audio_files = audio_files,
                                        !.feedback = feedback,
                                        !.remaining_pairs = shuffled,
                                        !.current_pair_index = 0]
                /\ confirm_shown' = FALSE
                /\ last' = [activated |-> TRUE, error |-> loaded.error,
                            previous_feedback |-> previous_feedback,
                            score |-> {}, returns |-> "none", click |-> {}]
                /\ hist' = [activated |-> TRUE, base |-> Len(feedback),
                            submits |-> 0,
                            dup_loaded |-> IF previous_feedback # <<>>
                                           THEN HasDuplicatePair(previous_feedback)
                                           ELSE hist.dup_loaded]
    ELSE IF up # <<>> /\ Len(session_state.audio_files) >= 2
    THEN \* lines 129-179
         LET offered == session_state.current_pair_index
                            < Len(session_state.remaining_pairs)
             done == IF offered /\ "submit" \in click
                     THEN handle_submission(session_state, similarity_score)
                     ELSE [state |-> session_state, returns |-> "none"]
             \* lines 176-178: session_state.clear() needs both buttons to
             \* return True in one run; the next run initializes the session
             cleared == "reset_button" \in click /\ "confirm_reset" \in click
         IN  /\ session_state' = IF cleared
                                 THEN initialize_session_state
                                 ELSE done.state
             \* a submit that returns True re-runs before line 176 is reached
             /\ confirm_shown' = ("reset_button" \in click /\ done.returns # "True")
             /\ last' = [NoHistory EXCEPT
                            !.score = IF done.returns = "none"
                                      THEN {} ELSE {similarity_score},
                            !.returns = done.returns,
                            !.click = click]
             /\ hist' = IF cleared THEN NoCounts
                        ELSE IF done.returns = "True"
                        THEN [hist EXCEPT !.submits = @ + 1]
                        ELSE hist
    ELSE \* line 127 or line 182: nothing below the progress line is rendered
         /\ session_state' = session_state
         /\ confirm_shown' = FALSE
         /\ last' = NoHistory
         /\ hist' = hist

(***************************************************************************)
(* The rater's interactions.                                               *)
(***************************************************************************)
\* The slider position the model's rater submits (0.7).
ScoreChoices == {x \in SliderValues : x = 7}

\* The serialized judgment {"song_a": a, "song_b": b, "similarity_score": x}.
Judgment(a, b, x) ==
    <<<<"song_a", "string", a>>, <<"song_b", "string", b>>,
      <<"similarity_score", "number", NumberText(x)>>>>

\* Prior-judgment files a rater may pick: undecodable bytes, text that is no
\* JSON, a JSON object, and arrays: empty, one judgment, the same pair the other
\* way round, a pair judged twice, and a judgment followed by an element
\* without similarity_score.
PriorFiles ==
    {[syntax |-> "binary", items |-> <<>>],
     [syntax |-> "garbage", items |-> <<>>],
     [syntax |-> "object", items |-> <<>>],
     [syntax |-> "array", items |-> <<>>],
     [syntax |-> "array", items |-> <<Judgment("a.wav", "b.wav", 4)>>],
     [syntax |-> "array", items |-> <<Judgment("b.wav", "a.wav", 4)>>],
     [syntax |-> "array",
      items |-> <<Judgment("a.wav", "c.wav", 4), Judgment("c.wav", "a.wav", 6)>>],
     [syntax |-> "array",
      items |-> <<Judgment("a.wav", "b.wav", 4),
                  <<<<"song_a", "string", "b.wav">>, <<"song_b", "string", "c.wav">>>>>>]}

\* Names in the order the model's rater keeps them in when told to.
NameOrder == <<"a.wav", "b.wav", "c.wav", "d.wav">>
NameIndex(name) == CHOOSE i \in 1..Len(NameOrder) : NameOrder[i] = name

\* Upload lists: every list of distinct names, and those in name order.
AnyOrder == DistinctSeqs(Names, 0, Cardinality(Names))
InNameOrder ==
    {s \in AnyOrder : \A i, j \in 1..Len(s) : i < j => NameIndex(s[i]) < NameIndex(s[j])}

\* The rater adds one or more WAV files to the uploader, which then holds one
\* of the lists in allowed.
AddFiles(allowed) ==
    \E new \in DistinctSeqs(Names \ Range(uploaded_files), 1, Cardinality(Names)) :
        /\ uploaded_files \o new \in allowed
        /\ uploaded_files' = uploaded_files \o new
        /\ main(uploaded_files', feedback_file, {}, min_value)
        /\ UNCHANGED <<feedback_file, disk>>

\* The rater removes one WAV file from the uploader.
RemoveFile ==
    \E i \in 1..Len(uploaded_files) :
        /\ uploaded_files' = RemoveAt(uploaded_files, i)
        /\ main(uploaded_files', feedback_file, {}, min_value)
        /\ UNCHANGED <<feedback_file, disk>>

\* The rater puts a file from files into the JSON uploader, or empties it.
ChooseFeedbackFile(files) ==
    \E f \in (files \cup {NoFile}) \ {feedback_file} :
        /\ feedback_file' = f
        /\ main(uploaded_files, f, {}, min_value)
        /\ UNCHANGED <<uploaded_files, disk>>

\* The rater sets the slider and presses "Submit Rating".
SubmitRating ==
    /\ PairOffered
    /\ Len(session_state.feedback) < MaxFeedback
    /\ \E similarity_score \in ScoreChoices :
          main(uploaded_files, feedback_file, {"submit"}, similarity_score)
    /\ UNCHANGED <<uploaded_files, feedback_file, disk>>

\* A "Reset Session" button that clears the session when pressed once.
PressReset_clears ==
    /\ ResetOffered
    /\ main(uploaded_files, feedback_file, {"reset_button", "confirm_reset"}, min_value)
    /\ UNCHANGED <<uploaded_files, feedback_file, disk>>

\* The rater presses "Reset Session".
PressReset ==
    /\ ResetOffered
    /\ main(uploaded_files, feedback_file, {"reset_button"}, min_value)
    /\ UNCHANGED <<uploaded_files, feedback_file, disk>>

\* The rater presses "Confirm Reset", which the last run rendered.
PressConfirm ==
    /\ confirm_shown
    /\ main(uploaded_files, feedback_file, {"confirm_reset"}, min_value)
    /\ UNCHANGED <<uploaded_files, feedback_file, disk>>

\* The rater presses "Download Feedback JSON" and keeps the file; the press
\* re-runs the script, which only renders.
Download ==
    /\ DownloadOffered
    /\ disk' = [file |-> json_dumps(session_state.feedback),
                 items |-> Range(session_state.audio_files),
                 judged |-> {JudgedSet(session_state.feedback[i]) :
                                i \in 1..Len(session_state.feedback)}]
    /\ main(uploaded_files, feedback_file, {"download"}, min_value)
    /\ UNCHANGED <<uploaded_files, feedback_file>>

\* The rater reloads the page: a new session with empty uploaders, whose first
\* run calls initialize_session_state.  Downloaded files stay on disk.
Reload ==
    /\ session_state' = initialize_session_state
    /\ uploaded_files' = <<>>
    /\ feedback_file' = NoFile
    /\ confirm_shown' = FALSE
    /\ last' = NoHistory
    /\ hist' = NoCounts
    /\ UNCHANGED disk

\* Prior-judgment files of the core specification: the arrays that hold a
\* judgment (one pair in each orientation, a pair judged twice, a judgment
\* followed by an invalid element).
CoreFiles == {f \in PriorFiles : f.syntax = "array" /\ Len(f.items) >= 1}

(***************************************************************************)
(* Spec: one session; the rater changes the item set at will (files kept   *)
(* in name order), picks prior-judgment files, submits and presses the     *)
(* reset buttons.                                                          *)
(***************************************************************************)
Next ==
    \/ AddFiles(InNameOrder)
    \/ RemoveFile
    \/ ChooseFeedbackFile(CoreFiles)
    \/ SubmitRating
    \/ PressReset
    \/ PressConfirm

Spec == Init /\ [][Next]_vars

(***************************************************************************)
(* SpecResume: sessions that are activated once each.  The rater uploads   *)
(* the item set in any order, after picking any prior-judgment file or the *)
(* last download (or none), rates, downloads, and reloads the page to      *)
(* start over.                                                             *)
(***************************************************************************)
UploadItemSet ==
    /\ uploaded_files = <<>>
    /\ session_state.audio_files = <<>>
    /\ AddFiles(AnyOrder)

PickPriorFile ==
    /\ session_state.audio_files = <<>>
    /\ ChooseFeedbackFile(PriorFiles \cup {disk.file})

NextResume ==
    \/ UploadItemSet
    \/ PickPriorFile
    \/ SubmitRating
    \/ Download
    \/ Reload

SpecResume == Init /\ [][NextResume]_vars

(***************************************************************************)
(* SpecCall: handle_submission called as a function, with any score and in *)
(* any state of the session, by a caller other than the page.              *)
(***************************************************************************)
\* Scores a caller may pass: one below the slider's range, one in it, one above.
CallScores == {min_value - 1, 7, max_value + 1}

CallHandleSubmission ==
    /\ Len(session_state.feedback) < MaxFeedback
    /\ \E similarity_score \in CallScores :
          LET done == handle_submission(session_state, similarity_score)
          IN  /\ session_state' = done.state
              /\ last' = [NoHistory EXCEPT !.score = {similarity_score},
                                           !.returns = done.returns]
              /\ hist' = IF done.returns = "True"
                         THEN [hist EXCEPT !.submits = @ + 1]
                         ELSE hist
    /\ UNCHANGED <<uploaded_files, feedback_file, confirm_shown, disk>>

NextCall ==
    \/ AddFiles(InNameOrder)
    \/ RemoveFile
    \/ CallHandleSubmission

SpecCall == Init /\ [][NextCall]_vars

(***************************************************************************)
(* SpecPairs: generate_pairs as a function.  The initial states draw the   *)
(* list of file names (uploaded_files) and the prior judgments (the        *)
(* session's feedback); the action stores the result in remaining_pairs.   *)
(***************************************************************************)
PriorJudgments ==
    {[song_a |-> a, song_b |-> b, similarity_score |-> 4] :
        <<a, b>> \in {ab \in Names \X Names : ab[1] # ab[2]}}

InitPairs ==
    /\ uploaded_files \in DistinctSeqs(PairNames, 0, Cardinality(PairNames))
    /\ session_state \in {[initialize_session_state EXCEPT !.feedback = prior] :
                             prior \in SeqsUpTo(PriorJudgments, MaxPrior)}
    /\ feedback_file = NoFile
    /\ confirm_shown = FALSE
    /\ disk = NoDownload
    /\ last = NoHistory
    /\ hist = NoCounts

GeneratePairs ==
    /\ last.returns = "none"
    /\ session_state' =
          [session_state EXCEPT
              !.remaining_pairs = generate_pairs(uploaded_files, session_state.feedback)]
    /\ last' = [NoHistory EXCEPT !.returns = "pairs"]
    /\ UNCHANGED <<uploaded_files, feedback_file, confirm_shown, disk, hist>>

NextPairs == GeneratePairs

SpecPairs == InitPairs /\ [][NextPairs]_vars

(***************************************************************************)
(* Claims.                                                                 *)
(***************************************************************************)
\* Shorthands for the session's fields.
judgments == session_state.feedback
work_queue == session_state.remaining_pairs
cursor == session_state.current_pair_index
items == session_state.audio_files

\* C1: in every state after the first activation, len(judgments) +
\* len(work_queue) - cursor equals N*(N-1)/2 for the N items of the active
\* item set.
C1_AllPairsAccounted ==
    hist.activated =>
        Len(judgments) + Len(work_queue) - cursor = Choose2(Len(items))

\* C2: unless the judgment list was loaded from a file that judges a pair
\* twice, it never holds two judgments of the same unordered pair.
C2_OneJudgmentPerPair ==
    ~hist.dup_loaded => ~HasDuplicatePair(judgments)

\* C3: k submits after an activation that installed a queue of length L leave
\* cursor = k <= L, exactly k new judgments, the i-th of them for the i-th pair
\* of the queue; the session is Complete when k = L and Active before.
C3_ExactlyOnceConsumption ==
    hist.activated =>
        LET L == Len(work_queue)
            k == hist.submits
        IN  /\ cursor = k
            /\ k <= L
            /\ Len(judgments) = hist.base + k
            /\ \A i \in 1..k :
                  /\ hist.base + i <= Len(judgments)
                  /\ judgments[hist.base + i].song_a = work_queue[i][1]
                  /\ judgments[hist.base + i].song_b = work_queue[i][2]
            /\ (k = L => TrackerState = "Complete" /\ ~PairOffered)
            /\ (k < L => TrackerState = "Active")

\* C3 witness: three items, no prior judgments, three submits: Complete with
\* three judgments.
C3_Witness ==
    /\ hist.activated
    /\ items = <<"a.wav", "b.wav", "c.wav">>
    /\ hist.base = 0
    /\ hist.submits = 3
    /\ Len(work_queue) = 3
    /\ Len(judgments) = 3
    /\ TrackerState = "Complete"

\* C6: the progress line shows (judged, total) with total = N*(N-1)/2 for the
\* N active items, whatever has been submitted, and judged <= total.
C6_ProgressTotalIsPairCount ==
    (hist.activated /\ ItemsShown) =>
        /\ shown_total_pairs = Choose2(Len(items))
        /\ shown_rated_pairs <= shown_total_pairs

\* C8: once a valid prior-judgment file sits in the uploader of an active
\* session, no pair it judges is still offered for rating.
C8_PriorFileExcludesItsPairs ==
    (hist.activated /\ ItemsShown /\ load_previous_feedback(feedback_file).data # <<>>) =>
        \A i \in (cursor + 1)..Len(work_queue) :
            \A f \in Range(load_previous_feedback(feedback_file).data) :
                PairSet(work_queue[i]) # JudgedSet(f)
\* C4: for N >= 2 distinct names in any order and no prior judgments,
\* generate_pairs returns N*(N-1)/2 pairs, none of an item with itself, no
\* unordered pair twice, and the unordered pairs are those of the set of names
\* (so the same for every ordering of the list).
C4_AllPairsOnce ==
    (last.returns = "pairs" /\ judgments = <<>> /\ Len(uploaded_files) >= 2) =>
        /\ Len(work_queue) = Choose2(Len(uploaded_files))
        /\ \A i \in 1..Len(work_queue) : work_queue[i][1] # work_queue[i][2]
        /\ \A i, j \in 1..Len(work_queue) :
              PairSet(work_queue[i]) = PairSet(work_queue[j]) => i = j
        /\ {PairSet(work_queue[i]) : i \in 1..Len(work_queue)}
              = UnorderedPairs(Range(uploaded_files))

\* C4 witness: four names out of name order, paired with no prior judgments.
C4_Witness ==
    /\ last.returns = "pairs"
    /\ judgments = <<>>
    /\ uploaded_files = <<"c.wav", "a.wav", "d.wav", "b.wav">>
    /\ Len(work_queue) = 6

\* C9: a call of handle_submission with a score below 0.0 or above 1.0 returns
\* False and leaves cursor and judgments as they were.
C9_OutOfRangeRejected ==
    [][\A x \in last'.score :
          (x < min_value \/ x > max_value) =>
              /\ last'.returns = "False"
              /\ session_state'.feedback = session_state.feedback
              /\ session_state'.current_pair_index = session_state.current_pair_index]_vars
\* C5: the queue an activation installs is a permutation of exactly the
\* unordered pairs of the item set that no prior judgment names, in either
\* orientation.
C5_QueueIsUnjudgedPairs ==
    last.activated =>
        LET expected == {T \in UnorderedPairs(Range(items)) :
                            \A f \in Range(last.previous_feedback) : JudgedSet(f) # T}
        IN  /\ Len(work_queue) = Cardinality(expected)
            /\ {PairSet(work_queue[i]) : i \in 1..Len(work_queue)} = expected

\* C5 witness: items a, b, c activated with the prior judgment (b, a): two
\* pairs are queued.
C5_Witness ==
    /\ last.activated
    /\ items = <<"a.wav", "b.wav", "c.wav">>
    /\ last.previous_feedback
          = <<[song_a |-> "b.wav", song_b |-> "a.wav", similarity_score |-> 4]>>
    /\ Len(work_queue) = 2

\* C7: a download made when every pair of an item set was judged, loaded as the
\* prior-judgment file of a new activation of the same item set, leaves an empty
\* queue: the session is Complete at once and offers no pair.
C7_RoundTripLeavesNothing ==
    ( /\ last.activated
      /\ disk.file # NoFile
      /\ feedback_file = disk.file
      /\ Range(items) = disk.items
      /\ UnorderedPairs(disk.items) \subseteq disk.judged ) =>
        /\ work_queue = <<>>
        /\ TrackerState = "Complete"
        /\ ~PairOffered

\* C7 witness: the three pairs of a, b, c were judged and downloaded; a new
\* session loads the download and uploads the items in another order.
C7_Witness ==
    /\ last.activated
    /\ feedback_file = disk.file
    /\ disk.items = {"a.wav", "b.wav", "c.wav"}
    /\ UnorderedPairs(disk.items) \subseteq disk.judged
    /\ items = <<"c.wav", "b.wav", "a.wav">>
    /\ Len(judgments) = 3
    /\ work_queue = <<>>

\* The file is invalid: its bytes are no JSON text, its root is no array, or
\* some element lacks song_a, song_b or similarity_score.
InvalidFile(file) ==
    \/ file.syntax \in {"binary", "garbage", "object"}
    \/ /\ file.syntax = "array"
       /\ \E i \in 1..Len(file.items) :
             \E k \in Range(Keys) :
                 \A m \in 1..Len(file.items[i]) : file.items[i][m][1] # k

C11_SingleResetChangesNothing ==
    [][/\ last'.click = {"reset_button"} =>
              /\ judgments' = judgments
              /\ work_queue' = work_queue
              /\ cursor' = cursor
       /\ (judgments # <<>> /\ judgments' = <<>>) =>
              (confirm_shown /\ "confirm_reset" \in last'.click)]_vars

\* C11 witness: "Reset Session" was pressed in a session that holds a judgment
\* and has a pair left; the confirmation is on the page and nothing is lost.
C11_Witness ==
    /\ last.click = {"reset_button"}
    /\ confirm_shown
    /\ Len(judgments) = 1
    /\ cursor = 1
    /\ Len(work_queue) = 3

\* Fewer than two items: in the uploader, or stored by the last activation.
TooFewItems == Len(uploaded_files) < 2 \/ Len(items) < 2

C13_CursorWithinQueue ==
    /\ [](/\ 0 <= cursor
          /\ cursor <= Len(work_queue)
          /\ items # <<>> => (TrackerState = "Complete" <=> cursor = Len(work_queue))
          /\ EnoughItems => (AllRatedShown <=> cursor = Len(work_queue))
          /\ PairOffered => cursor < Len(work_queue)
          /\ ENABLED SubmitRating => cursor < Len(work_queue))
    /\ [][last'.returns # "none" =>
              (TrackerState = "Active" /\ cursor < Len(work_queue))]_vars

\* C13 witness: the last pair of a queue of two was submitted: the cursor is
\* at the end of the queue and the page says that all pairs are rated.
C13_Witness ==
    /\ last.returns = "True"
    /\ Len(work_queue) = 2
    /\ cursor = 2
    /\ AllRatedShown
    /\ ~PairOffered

\* C14: a call of handle_submission made when there is no current pair (the
\* queue is empty, or the cursor is at its end) returns False, raises nothing,
\* and leaves judgments and cursor as they were.
C14_NoCurrentPairReturnsFalse ==
    [][(last'.score # {} /\ ~(cursor < Len(work_queue))) =>
          /\ last'.returns = "False"
          /\ judgments' = judgments
          /\ cursor' = cursor]_vars

\* C15: a run that activates an item set leaves the cursor at 0 and keeps
\* every judgment the session held before it, whether or not a prior-judgment
\* file is in the uploader.
C15_ActivationKeepsJudgments ==
    [][last'.activated =>
          /\ cursor' = 0
          /\ \A i \in 1..Len(judgments) : judgments[i] \in Range(judgments')]_vars

\* C16: a run that is no activation (a submit, a button press, a change of
\* the prior-judgment file) leaves work_queue as it is: the same pairs in the
\* same order and orientation; a submit changes only cursor and judgments.
C16_QueueFixedBetweenActivations ==
    [][/\ ~last'.activated => work_queue' = work_queue
       /\ last'.returns = "True" =>
              /\ items' = items
              /\ cursor' = cursor + 1
              /\ Len(judgments') = Len(judgments) + 1]_vars

\* C16 witness: a queue of three pairs that the shuffle left out of generation
\* order is unchanged after the second submit.
C16_Witness ==
    /\ last.returns = "True"
    /\ work_queue = <<<<"b.wav", "c.wav">>, <<"a.wav", "b.wav">>, <<"a.wav", "c.wav">>>>
    /\ cursor = 2
    /\ Len(judgments) = 2
    /\ judgments[2].song_a = "a.wav"
    /\ judgments[2].song_b = "b.wav"

\* C17: after the run in which "Confirm Reset" was pressed (it is on the page
\* only after a press of "Reset Session"), judgments and work_queue are empty,
\* cursor is 0 and the session is Empty.
C17_ConfirmedResetClears ==
    last.click = {"confirm_reset"} =>
        /\ judgments = <<>>
        /\ work_queue = <<>>
        /\ cursor = 0
        /\ TrackerState = "Empty"

\* The judgment with song_a and song_b exchanged.
Swapped(f) ==
    [song_a |-> f.song_b, song_b |-> f.song_a, similarity_score |-> f.similarity_score]

\* C18: generate_pairs returns the same list for the prior judgments P, for P
\* with any of its judgments listed once more, and for P with any of its
\* judgments turned round; a judgment of two of the items, listed twice, takes
\* exactly one pair out of the enumeration.
C18_ExclusionIdempotent ==
    last.returns = "pairs" =>
        \A i \in 1..Len(judgments) :
            /\ generate_pairs(uploaded_files, Append(judgments, judgments[i]))
                  = work_queue
            /\ generate_pairs(uploaded_files, <<judgments[i]>> \o judgments)
                  = work_queue
            /\ generate_pairs(uploaded_files, [judgments EXCEPT ![i] = Swapped(@)])
                  = work_queue
            /\ {judgments[i].song_a, judgments[i].song_b} \subseteq Range(uploaded_files) =>
                  Len(generate_pairs(uploaded_files, <<judgments[i], judgments[i]>>))
                      = Len(all_pairs(uploaded_files)) - 1

\* C18 witness: four items paired with the judgment (b, a) listed twice: five
\* of the six pairs are left.
C18_Witness ==
    /\ last.returns = "pairs"
    /\ Len(uploaded_files) = 4
    /\ Len(judgments) = 2
    /\ judgments[1] = judgments[2]
    /\ judgments[1].song_a = "b.wav"
    /\ judgments[1].song_b = "a.wav"
    /\ Len(work_queue) = 5

====
